---- MODULE Spec2Model ----
(***************************************************************************)
(* Verification model of the two cores of the repository:                  *)
(*   - NewWriter (src/newwriter.py): a ROOT file writer that keeps a web   *)
(*     of byte offsets consistent while regions are relocated;             *)
(*   - PartitionSet / fill / iterator (src/uproot/partition.py).           *)
(* Each core has its own specification over its own variables; the         *)
(* variables of the other cores are frozen while one core runs.            *)
(***************************************************************************)
EXTENDS Integers, Sequences, FiniteSets, TLC

(***************************************************************************)
(* Writer state (fields of NewWriter, Header, DirectoryInfo) plus the      *)
(* buffer.  The buffer is kept as the set of intact records it holds:      *)
(* [at, len, kind, val].  A record that a later write or copy overlaps,    *)
(* even partially, is no longer intact and leaves the set.                 *)
(***************************************************************************)
VARIABLES file, filesize, cursor, streamers,
          fEND, fSeekFree, fSeekInfo, fSeekKeys, fNbytesKeys,
          directory_pointcheck, streamerend, streamerlimit,
          keystart, keyend, keylimit,
          head_key_pointcheck, head_key_end, nkeys,
          sizes, inserted, wpc

wvars == <<file, filesize, cursor, streamers,
           fEND, fSeekFree, fSeekInfo, fSeekKeys, fNbytesKeys,
           directory_pointcheck, streamerend, streamerlimit,
           keystart, keyend, keylimit,
           head_key_pointcheck, head_key_end, nkeys,
           sizes, inserted, wpc>>

(***************************************************************************)
(* Planner state: the inputs of one fill run (the files behind the paths,  *)
(* the selected branches, the under predicate) and the locals of fill.     *)
(* Paths are numbered 1..npaths in traversal order; the path of file i is  *)
(* i.  Baskets are numbered from 1.                                        *)
(***************************************************************************)
VARIABLES npaths, rootfiles, toget, under,
          trees, opens, partitions, partitioni, fpc, ferror, fresult

fvars == <<npaths, rootfiles, toget, under,
           trees, opens, partitions, partitioni, fpc, ferror, fresult>>

(***************************************************************************)
(* PartitionSet construction and JSON: the arguments handed to the         *)
(* constructor, the object built, its JSON form and the object read back.  *)
(***************************************************************************)
VARIABLES psargs, psobj, psjson, psback, ppc

pvars == <<psargs, psobj, psjson, psback, ppc>>

(***************************************************************************)
(* iterator(partitionset): the locals of the generator (treedata, oldpath, *)
(* entries, nextpartition), its position in the two for loops, where it    *)
(* is suspended, and the records it has yielded so far.  A path of 0 is    *)
(* None.                                                                   *)
(***************************************************************************)
VARIABLES treedata, oldpath, entries, nextpartition, forpos, ipc, yielded

ivars == <<treedata, oldpath, entries, nextpartition, forpos, ipc, yielded>>

vars == <<wvars, fvars, pvars, ivars>>

\* ---------------------------------------------------------------- bounds
MaxInserts == 4

\* Inserts made after a long run of full-key inserts.
MaxLateInserts == 2

\* ------------------------------------------------------ program constants
expander == 500
expanderpow == 2
KeyRoom == 200
StreamerRoom == 500

\* ----------------------------------------------------------------- inputs
\* Byte lengths of the names passed to insert (keyname.encode("utf-8")).
NameLens == {1, 87}
\* Name lengths beyond what fits the preallocated regions.
LongNameLens == {199937}
\* Names whose StringKey is exactly KeyRoom bytes long.
FullNameLens == {137}
\* Byte lengths of the serialized TObjString payloads.
ShortStringLens == {10}
StringLens == {10, 200}
\* Lengths the sink produces for the records emitted by the constructor;
\* they depend on the file name only.
SinkLens == { [header |-> 100, beginkey |-> bk, strings |-> 20, dirinfo |-> 42, streamerkey |-> 64,
               allstreamers |-> al, headkey |-> hk, tobjstreamer |-> ts] :
              bk \in {58}, al \in {100}, hk \in {56, 96}, ts \in {200} }

\* A key for a TObjString named with n bytes: fixed ROOT key header, class
\* name, object name, title.  The junk-key and the StringKey describe the
\* same object and serialize to the same length.
KeyLen(n) == 63 + n

Max(a, b) == IF a > b THEN a ELSE b

\* ------------------------------------------------------------ the buffer
Disjoint(r, at, len) == r.at + r.len <= at \/ r.at >= at + len

\* sink.set_*(Cursor(at), ...): put a record of len bytes at offset at.
Write(f, at, len, kind, val) ==
    {r \in f : Disjoint(r, at, len)} \cup {[at |-> at, len |-> len, kind |-> kind, val |-> val]}

\* file[dst:dst+n] = file[src:src+n]
CopyRange(f, src, dst, n) ==
    LET whole == {r \in f : r.at >= src /\ r.at + r.len <= src + n}
        moved == {[r EXCEPT !.at = r.at - src + dst] : r \in whole}
    IN  {r \in f : Disjoint(r, dst, n)} \cup moved

\* file.resize(n): bytes beyond n are dropped.
Resize(f, n) == {r \in f : r.at + r.len <= n}

Holds(f, at, kind, val) == \E r \in f : r.at = at /\ r.kind = kind /\ r.val = val

\* --------------------------------------------------------- NewWriter.__init__
WriterInit ==
    \E L \in SinkLens :
       LET fBEGIN == L.header
           dpc   == fBEGIN + L.beginkey + L.strings
           sinfo == dpc + L.dirinfo
           sstart == sinfo + L.streamerkey
           send  == sstart + L.allstreamers
           kstart == sstart + expander
           hkend == kstart + L.headkey
           kend  == hkend + 4
           f1 == Write({}, 0, fBEGIN, "Header", <<0, 0, 0>>)
           f2 == Write(f1, fBEGIN, L.beginkey, "BeginKey", <<0>>)
           f3 == Write(f2, fBEGIN + L.beginkey, L.strings, "Strings", <<0>>)
           f4 == Write(f3, dpc, L.dirinfo, "DirectoryInfo", <<0, 0>>)
           f5 == Write(f4, sinfo, L.streamerkey, "StreamerKey", <<0>>)
           f6 == Write(f5, sstart, L.allstreamers, "AllStreamers", <<1>>)
           f7 == Write(f6, dpc, L.dirinfo, "DirectoryInfo", <<0, kstart>>)
           f8 == Write(f7, kstart, L.headkey, "HeadKey", <<0>>)
           f9 == Write(f8, hkend, 4, "nkeys", <<0>>)
           f10 == Write(f9, 0, fBEGIN, "Header", <<kend + expander, kend, sinfo>>)
       IN  /\ sizes = L
           /\ file = f10
           /\ filesize = kstart + expander
           /\ cursor = kend
           /\ streamers = <<>>
           /\ fSeekInfo = sinfo
           /\ directory_pointcheck = dpc
           /\ fNbytesKeys = 0
           /\ streamerend = send
           /\ streamerlimit = send + expander
           /\ fSeekKeys = kstart
           /\ keystart = kstart
           /\ keylimit = kstart + expander
           /\ head_key_pointcheck = kstart
           /\ head_key_end = hkend
           /\ nkeys = 0
           /\ keyend = kend
           /\ fSeekFree = kend
           /\ fEND = kend + expander
           /\ inserted = <<>>
           /\ wpc = "ready"

\* ------------------------------------------------------ NewWriter.__setitem__
\* "Check for Key re-allocation"
NeedsKeyRelocation(klimit, kend) == klimit - kend < KeyRoom

\* "Check for streamer reallocation"
NeedsStreamerRelocation(slimit, send) == slimit - send < StreamerRoom

\* Top of a relocated region: its base plus the grown capacity.
RegionTop(base) == base + expander ^ expanderpow

\* HeaderEnd without its guard: fEND always follows the object tail.
HeaderEnd_Unguarded(cur, fend) == cur

\* "Updating header bytes": fEND and fSeekFree follow the object tail only
\* when it lies beyond the current fEND.
HeaderEnd(cur, fend) == IF cur > fend THEN cur ELSE fend

\* State of the writer after the key-list step of an insert.
KeyStep(f, size, id, pointcheck, klen) ==
    LET reloc == NeedsKeyRelocation(keylimit, keyend)
        top   == RegionTop(fEND)
        fr1 == IF reloc THEN CopyRange(Resize(f, top), fSeekKeys, fEND, expander) ELSE f
        kend1 == IF reloc THEN fEND + keyend - fSeekKeys ELSE keyend
        seek1 == IF reloc THEN fEND ELSE fSeekKeys
        fr2 == IF reloc
                 THEN Write(fr1, directory_pointcheck, sizes.dirinfo, "DirectoryInfo", <<fNbytesKeys, seek1>>)
                 ELSE fr1
        fr3 == Write(fr2, kend1, klen, "StringKey", <<id, pointcheck>>)
    IN  [file |-> fr3,
         size |-> Max(IF reloc THEN top ELSE size, kend1 + klen),
         reloc |-> reloc,
         keyat |-> kend1,
         keyend |-> kend1 + klen,
         fSeekKeys |-> seek1,
         keylimit |-> IF reloc THEN top ELSE keylimit,
         fEND |-> IF reloc THEN top ELSE fEND,
         fSeekFree |-> IF reloc THEN top ELSE fSeekFree]

\* The "Place Streamers" step without the registry lookup: the descriptor
\* is written on every insert.
StreamerStep_Always(k) ==
    LET reloc == NeedsStreamerRelocation(streamerlimit, streamerend)
        top == RegionTop(k.fEND)
        fs1 == IF reloc THEN CopyRange(k.file, fSeekInfo, k.fEND, expander) ELSE k.file
        send1 == IF reloc THEN k.fEND + streamerend - fSeekInfo ELSE streamerend
        fs2 == Write(fs1, send1, sizes.tobjstreamer, "TObjStringStreamers", <<0>>)
    IN  [file |-> fs2,
         size |-> Max(k.size, send1 + sizes.tobjstreamer),
         wrote |-> TRUE, streamerat |-> send1,
         streamers |-> Append(streamers, "TObjString"),
         streamerend |-> send1 + sizes.tobjstreamer,
         streamerlimit |-> IF reloc THEN top ELSE streamerlimit,
         fSeekInfo |-> IF reloc THEN k.fEND ELSE fSeekInfo,
         fEND |-> IF reloc THEN top ELSE k.fEND,
         fSeekFree |-> IF reloc THEN top ELSE k.fSeekFree]

\* State of the writer after the "Place Streamers" step, entered with the
\* outcome k of the key-list step.
StreamerStep(k) ==
    IF \E i \in 1..Len(streamers) : streamers[i] = "TObjString"
      THEN [file |-> k.file, size |-> k.size, wrote |-> FALSE, streamerat |-> 0,
            streamers |-> streamers, streamerend |-> streamerend,
            streamerlimit |-> streamerlimit, fSeekInfo |-> fSeekInfo,
            fEND |-> k.fEND, fSeekFree |-> k.fSeekFree]
      ELSE LET reloc == NeedsStreamerRelocation(streamerlimit, streamerend)
               top == RegionTop(k.fEND)
               fs1 == IF reloc THEN CopyRange(k.file, fSeekInfo, k.fEND, expander) ELSE k.file
               send1 == IF reloc THEN k.fEND + streamerend - fSeekInfo ELSE streamerend
               fs2 == Write(fs1, send1, sizes.tobjstreamer, "TObjStringStreamers", <<0>>)
           IN  [file |-> fs2,
                size |-> Max(k.size, send1 + sizes.tobjstreamer),
                wrote |-> TRUE, streamerat |-> send1,
                streamers |-> Append(streamers, "TObjString"),
                streamerend |-> send1 + sizes.tobjstreamer,
                streamerlimit |-> IF reloc THEN top ELSE streamerlimit,
                fSeekInfo |-> IF reloc THEN k.fEND ELSE fSeekInfo,
                fEND |-> IF reloc THEN top ELSE k.fEND,
                fSeekFree |-> IF reloc THEN top ELSE k.fSeekFree]

\* The tail common to every insert: count, directory, head-key, header.
Finish(f, size, cur, kend, seekkeys, klimit, fend, ffree, seekinfo, entry) ==
    LET n1 == nkeys + 1
        g1 == Write(f, head_key_end, 4, "nkeys", <<n1>>)
        nbk == fend - kend
        g2 == Write(g1, directory_pointcheck, sizes.dirinfo, "DirectoryInfo", <<nbk, seekkeys>>)
        g3 == Write(g2, head_key_pointcheck, head_key_end - head_key_pointcheck, "HeadKey", <<nbk>>)
        fend1 == HeaderEnd(cur, fend)
        ffree1 == IF cur > fend THEN cur ELSE ffree
        g4 == Write(g3, 0, sizes.header, "Header", <<fend1, ffree1, seekinfo>>)
    IN  /\ nkeys' = n1
        /\ fNbytesKeys' = nbk
        /\ fEND' = fend1
        /\ fSeekFree' = ffree1
        /\ file' = g4
        /\ filesize' = Max(size, head_key_end + 4)
        /\ cursor' = cur
        /\ keyend' = kend
        /\ fSeekKeys' = seekkeys
        /\ keylimit' = klimit
        /\ fSeekInfo' = seekinfo
        /\ inserted' = Append(inserted, entry)
        /\ UNCHANGED <<directory_pointcheck, keystart, head_key_pointcheck, head_key_end, sizes, wpc>>
        /\ UNCHANGED <<fvars, pvars, ivars>>

\* insert(name, value) with a TObjString value; namelen and paylen are the
\* byte lengths of the encoded name and of the serialized string.
PlaceTObjString(namelen, paylen) ==
    LET id == Len(inserted) + 1
        pointcheck == fEND
        klen == KeyLen(namelen)
        f1 == Write(file, pointcheck, klen, "JunkKey", <<id>>)
        f2 == Write(f1, pointcheck + klen, paylen, "TObjString", <<id>>)
        cur == pointcheck + klen + paylen
        k == KeyStep(f2, Max(filesize, cur), id, pointcheck, klen)
        s == StreamerStep(k)
    IN  /\ streamers' = s.streamers
        /\ streamerend' = s.streamerend
        /\ streamerlimit' = s.streamerlimit
        /\ Finish(s.file, s.size, cur, k.keyend, k.fSeekKeys, k.keylimit,
                  s.fEND, s.fSeekFree, s.fSeekInfo,
                  [tobj |-> TRUE, namelen |-> namelen, at |-> pointcheck, keylen |-> klen,
                   paylen |-> paylen, keyat |-> k.keyat, reloc |-> k.reloc,
                   streamerat |-> s.streamerat, wrotestreamer |-> s.wrote])

InsertTObjString(namelen, paylen) ==
    /\ wpc = "ready"
    /\ Len(inserted) < MaxInserts
    /\ PlaceTObjString(namelen, paylen)

\* Number of full-key inserts after which the next insert finds less than
\* KeyRoom bytes left in the grown key-list region: two inserts fit the
\* preallocated region, the third relocates the list, and the grown region
\* then takes one key per insert.
RunInserts(L) == 3 + (RegionTop(0) - (L.headkey + 4 + 3 * KeyRoom)) \div KeyRoom

\* A long run of inserts whose StringKeys have the largest size the
\* relocation check leaves room for.
InsertFullKey ==
    /\ wpc = "ready"
    /\ Len(inserted) < RunInserts(sizes)
    /\ \E n \in FullNameLens, p \in ShortStringLens : PlaceTObjString(n, p)

\* The writer after N >= 4 full-key inserts on a file laid out with L, N
\* not beyond RunInserts(L): the state the run of InsertFullKey arrives at.
WriterAfterRun(L, N) ==
    LET K == KeyLen(CHOOSE n \in FullNameLens : TRUE)
        P == CHOOSE p \in ShortStringLens : TRUE
        O == K + P
        dpc == L.header + L.beginkey + L.strings
        sinfo == dpc + L.dirinfo
        sstart == sinfo + L.streamerkey
        send == sstart + L.allstreamers
        kstart == sstart + expander
        hkend == kstart + L.headkey
        kend0 == hkend + 4
        F0 == kend0 + expander
        S1 == F0 + 2 * O
        T1 == RegionTop(S1)
        list == S1 + L.headkey + 4
        at(i) == IF i <= 3 THEN F0 + O * (i - 1) ELSE T1 + O * (i - 4)
        keyat(i) == IF i <= 2 THEN kend0 + K * (i - 1) ELSE list + K * (i - 1)
        end == T1 + O * (N - 3)
        kend == list + K * N
        nbk == T1 + O * (N - 4) - kend
        nbk2 == (F0 + O) - (kend0 + 2 * K)
        fixed == { [at |-> 0, len |-> L.header, kind |-> "Header", val |-> <<end, end, sinfo>>],
                   [at |-> L.header, len |-> L.beginkey, kind |-> "BeginKey", val |-> <<0>>],
                   [at |-> L.header + L.beginkey, len |-> L.strings, kind |-> "Strings", val |-> <<0>>],
                   [at |-> dpc, len |-> L.dirinfo, kind |-> "DirectoryInfo", val |-> <<nbk, S1>>],
                   [at |-> sinfo, len |-> L.streamerkey, kind |-> "StreamerKey", val |-> <<0>>],
                   [at |-> sstart, len |-> L.allstreamers, kind |-> "AllStreamers", val |-> <<1>>],
                   [at |-> send, len |-> L.tobjstreamer, kind |-> "TObjStringStreamers", val |-> <<0>>],
                   [at |-> kstart, len |-> L.headkey, kind |-> "HeadKey", val |-> <<nbk>>],
                   [at |-> hkend, len |-> 4, kind |-> "nkeys", val |-> <<N>>],
                   [at |-> S1, len |-> L.headkey, kind |-> "HeadKey", val |-> <<nbk2>>],
                   [at |-> S1 + L.headkey, len |-> 4, kind |-> "nkeys", val |-> <<2>>] }
        oldkeys == { [at |-> kend0 + K * (i - 1), len |-> K, kind |-> "StringKey", val |-> <<i, at(i)>>] :
                     i \in 1..2 }
        keys == { [at |-> list + K * (i - 1), len |-> K, kind |-> "StringKey", val |-> <<i, at(i)>>] :
                  i \in 1..N }
        junk == { [at |-> at(i), len |-> K, kind |-> "JunkKey", val |-> <<i>>] : i \in (1..N) \ {3} }
        objs == { [at |-> at(i) + K, len |-> P, kind |-> "TObjString", val |-> <<i>>] : i \in (1..N) \ {3} }
    IN  [file |-> fixed \cup oldkeys \cup keys \cup junk \cup objs,
         filesize |-> end, cursor |-> end, streamers |-> <<"TObjString">>,
         fEND |-> end, fSeekFree |-> end, fSeekInfo |-> sinfo, fSeekKeys |-> S1,
         fNbytesKeys |-> nbk, directory_pointcheck |-> dpc,
         streamerend |-> send + L.tobjstreamer, streamerlimit |-> send + expander,
         keystart |-> kstart, keyend |-> kend, keylimit |-> T1,
         head_key_pointcheck |-> kstart, head_key_end |-> hkend, nkeys |-> N,
         sizes |-> L,
         inserted |-> [i \in 1..N |->
                         [tobj |-> TRUE, namelen |-> CHOOSE n \in FullNameLens : TRUE,
                          at |-> at(i), keylen |-> K, paylen |-> P, keyat |-> keyat(i),
                          reloc |-> (i = 3), streamerat |-> IF i = 1 THEN send ELSE 0,
                          wrotestreamer |-> (i = 1)]],
         wpc |-> "ready"]

\* The writer's variables as a record.
WriterState ==
    [file |-> file, filesize |-> filesize, cursor |-> cursor, streamers |-> streamers,
     fEND |-> fEND, fSeekFree |-> fSeekFree, fSeekInfo |-> fSeekInfo, fSeekKeys |-> fSeekKeys,
     fNbytesKeys |-> fNbytesKeys, directory_pointcheck |-> directory_pointcheck,
     streamerend |-> streamerend, streamerlimit |-> streamerlimit,
     keystart |-> keystart, keyend |-> keyend, keylimit |-> keylimit,
     head_key_pointcheck |-> head_key_pointcheck, head_key_end |-> head_key_end, nkeys |-> nkeys,
     sizes |-> sizes, inserted |-> inserted, wpc |-> wpc]

\* A writer that has been through the run of InsertFullKey.
WriterLateInit ==
    \E L \in SinkLens :
        LET st == WriterAfterRun(L, RunInserts(L))
        IN
            /\ file = st.file
            /\ filesize = st.filesize
            /\ cursor = st.cursor
            /\ streamers = st.streamers
            /\ fEND = st.fEND
            /\ fSeekFree = st.fSeekFree
            /\ fSeekInfo = st.fSeekInfo
            /\ fSeekKeys = st.fSeekKeys
            /\ fNbytesKeys = st.fNbytesKeys
            /\ directory_pointcheck = st.directory_pointcheck
            /\ streamerend = st.streamerend
            /\ streamerlimit = st.streamerlimit
            /\ keystart = st.keystart
            /\ keyend = st.keyend
            /\ keylimit = st.keylimit
            /\ head_key_pointcheck = st.head_key_pointcheck
            /\ head_key_end = st.head_key_end
            /\ nkeys = st.nkeys
            /\ sizes = st.sizes
            /\ inserted = st.inserted
            /\ wpc = st.wpc

\* An insert of a TObjString made after the run.
InsertLate(namelen, paylen) ==
    /\ wpc = "ready"
    /\ Len(inserted) < RunInserts(sizes) + MaxLateInserts
    /\ PlaceTObjString(namelen, paylen)

\* insert(name, value) with a value of any other type.
PlaceOther ==
    /\ UNCHANGED <<streamers, streamerend, streamerlimit>>
    /\ Finish(file, filesize, fEND, keyend, fSeekKeys, keylimit, fEND, fSeekFree, fSeekInfo,
              [tobj |-> FALSE, namelen |-> 0, at |-> fEND, keylen |-> 0,
               paylen |-> 0, keyat |-> 0, reloc |-> FALSE,
               streamerat |-> 0, wrotestreamer |-> FALSE])

InsertOther ==
    /\ wpc = "ready"
    /\ Len(inserted) < MaxInserts
    /\ PlaceOther

\* An insert of a value of another type made after the run.
InsertOtherLate ==
    /\ wpc = "ready"
    /\ Len(inserted) < RunInserts(sizes) + MaxLateInserts
    /\ PlaceOther

WriterLateNext ==
    \/ \E n \in NameLens \cup FullNameLens, p \in StringLens : InsertLate(n, p)
    \/ InsertOtherLate

\* Inserts sized as the writer's contract asks (object records <= 400 bytes).
WriterNext ==
    \/ \E n \in NameLens, p \in StringLens : InsertTObjString(n, p)
    \/ InsertOther

\* Inserts with names of any length.
WriterNextAny ==
    \/ \E n \in NameLens \cup LongNameLens, p \in StringLens : InsertTObjString(n, p)
    \/ InsertOther

(***************************************************************************)
(*                       PartitionSet and fill                             *)
(***************************************************************************)
\* --------------------------------------------------------------- bounds
MaxFiles == 2
MaxEntries == 2

\* ---------------------------------------------------------------- inputs
BasketBytes == {1, 2}
Unlimited == 1000
\* under(baskets): at most maxcount baskets and fewer than maxbytes bytes.
UnderChoices == { [maxcount |-> 1, maxbytes |-> Unlimited],
                  [maxcount |-> Unlimited, maxbytes |-> 2],
                  [maxcount |-> Unlimited, maxbytes |-> 3],
                  [maxcount |-> Unlimited, maxbytes |-> Unlimited] }
BranchSelections == { <<"x">>, <<"x", "y">> }

NoError == [kind |-> "", branch |-> "", entry |-> 0, path |-> 0, other |-> 0]
NoResult == [ok |-> FALSE, err |-> "", ps |-> <<>>]

\* Basket sequences the tree reader can report for a branch of n entries:
\* contiguous from entry 0, no empty basket.
RECURSIVE Tiles(_, _, _)
Tiles(l, from, n) ==
    IF l = <<>> THEN from = n
    ELSE Head(l).start = from /\ Tiles(Tail(l), from + Head(l).entries, n)

Layouts(n, bytes) ==
    UNION { {l \in [1..k -> [start : 0..(n - 1), entries : 1..n, bytes : bytes]] : Tiles(l, 0, n)}
            : k \in 1..n }

\* ------------------------------------------------- Range, Partition
RangeNumEntries(r) == r.entryend - r.entrystart

RECURSIVE SumRangeEntries(_)
SumRangeEntries(rs) ==
    IF rs = <<>> THEN 0 ELSE RangeNumEntries(Head(rs)) + SumRangeEntries(Tail(rs))

PartitionNumEntries(p) == SumRangeEntries(p.ranges)

RECURSIVE SumPartitionEntries(_)
SumPartitionEntries(ps) ==
    IF ps = <<>> THEN 0 ELSE PartitionNumEntries(Head(ps)) + SumPartitionEntries(Tail(ps))

\* ------------------------------------------------- PartitionSet.__init__
\* The range walk of the constructor.  Paths are positive numbers; a
\* lastpath of 0 is None.
RECURSIVE RangeWalk(_, _, _)
RangeWalk(rs, lastpath, last) ==
    IF rs = <<>> THEN TRUE
    ELSE LET r == Head(rs)
         IN  /\ IF lastpath # r.path THEN r.entrystart = 0 ELSE r.entrystart = last
             /\ RangeWalk(Tail(rs), r.path, r.entryend)

RECURSIVE AllRanges(_)
AllRanges(ps) == IF ps = <<>> THEN <<>> ELSE Head(ps).ranges \o AllRanges(Tail(ps))

\* partitions is the tuple of positional arguments after numentries; each
\* is an object with a kind: a Partition, or something else.
PartitionSetNew(treepath, branchdtypes, branchcounters, numpartitions, numentries, parts) ==
    LET fail(e) == [ok |-> FALSE, err |-> e, ps |-> <<>>]
    IN  IF branchdtypes.kind # "dict" THEN fail("TypeError")
        ELSE IF numpartitions # Len(parts) THEN fail("AssertionError")
        ELSE IF ~(\A i \in 1..Len(parts) : parts[i].kind = "Partition" /\ parts[i].index = i - 1)
               THEN fail("AssertionError")
        ELSE IF numentries # SumPartitionEntries(parts) THEN fail("AssertionError")
        ELSE IF ~RangeWalk(AllRanges(parts), 0, 0) THEN fail("AssertionError")
        ELSE [ok |-> TRUE, err |-> "",
              ps |-> [treepath |-> treepath, branchdtypes |-> branchdtypes,
                      branchcounters |-> branchcounters, numpartitions |-> numpartitions,
                      numentries |-> numentries, partitions |-> parts]]

\* ------------------------------------------------------------- fill
\* under(baskets)
RECURSIVE SumBytes(_)
SumBytes(bd) == IF bd = <<>> THEN 0 ELSE Head(bd).numbytes + SumBytes(Tail(bd))

Under(bd) == Len(bd) <= under.maxcount /\ SumBytes(bd) < under.maxbytes

\* by(choices): the default, min(choices, key=numentries); the first of the
\* minimal candidates wins.
By(choices) ==
    LET least(i) == \A j \in 1..Len(choices) :
                        PartitionNumEntries(choices[i]) <= PartitionNumEntries(choices[j])
        first == CHOOSE i \in 1..Len(choices) : least(i) /\ \A j \in 1..(i - 1) : ~least(j)
    IN  choices[first]

\* The schema check without its pass over the selected branches.
SchemaError_CountersOnly(i) ==
    LET old == rootfiles[1]
        new == rootfiles[i]
        badcounter == {b \in DOMAIN old.counters :
                          b \notin DOMAIN new.counters \/ new.counters[b] # old.counters[b]}
    IN  IF badcounter # {}
          THEN [kind |-> "ValueError", branch |-> CHOOSE b \in badcounter : TRUE, entry |-> 0,
                path |-> i, other |-> i - 1]
        ELSE NoError

\* Schema check run when tree(i) opens file i: selected branches and
\* counters of file i against those of the first file.
SchemaError(i) ==
    LET old == rootfiles[1]
        new == rootfiles[i]
        selected == {toget[k] : k \in 1..Len(toget)}
        badbranch == {b \in selected : b \notin DOMAIN new.dtypes \/ new.dtypes[b] # old.dtypes[b]}
        badcounter == {b \in DOMAIN old.counters :
                          b \notin DOMAIN new.counters \/ new.counters[b] # old.counters[b]}
    IN  IF badbranch # {}
          THEN [kind |-> "ValueError", branch |-> CHOOSE b \in badbranch : TRUE, entry |-> 0,
                path |-> i, other |-> i - 1]
        ELSE IF badcounter # {}
          THEN [kind |-> "ValueError", branch |-> CHOOSE b \in badcounter : TRUE, entry |-> 0,
                path |-> i, other |-> i - 1]
        ELSE NoError

\* tree(i): the cache t = [trees, opens, err] after the call.
Tree(t, i) ==
    IF i \in t.trees \/ t.err # NoError THEN t
    ELSE [trees |-> t.trees \cup {i},
          opens |-> [t.opens EXCEPT ![i] = @ + 1],
          err |-> SchemaError(i)]

\* "start this branch where the global partitioning process left off":
\* the first basket that is the last one or whose successor starts after
\* entryi.
StartBasket(br, entryi) ==
    CHOOSE i \in 1..Len(br) :
        /\ (i = Len(br) \/ br[i + 1].start > entryi)
        /\ \A j \in 1..(i - 1) : ~(j = Len(br) \/ br[j + 1].start > entryi)

\* The file whose branch object fill reads baskets from after it moved on
\* to file pathi: the tree of pathi is fetched into the local `basket`,
\* the local `branch` keeps the branch of the file it was bound to.
BranchAfterAdvance(bfile, pathi) == bfile

\* "accumulate until the constraint is satisfied"
RECURSIVE Grow(_, _, _, _, _, _)
Grow(b, pathi, basketi, bfile, bd, t) ==
    LET exhausted == basketi > Len(rootfiles[bfile].branches[b])
        pathi1 == IF exhausted THEN pathi + 1 ELSE pathi
        basketi1 == IF exhausted THEN 1 ELSE basketi
    IN  IF exhausted /\ pathi1 > npaths THEN [bd |-> bd, pathi |-> pathi1, t |-> t]
        ELSE LET t1 == IF exhausted THEN Tree(t, pathi1) ELSE t
                 bfile1 == IF exhausted THEN BranchAfterAdvance(bfile, pathi1) ELSE bfile
                 bk == rootfiles[bfile1].branches[b][basketi1]
                 bd1 == Append(bd, [path |-> pathi1, pathi |-> pathi1, branchname |-> b,
                                    entrystart |-> bk.start,
                                    entryend |-> bk.start + bk.entries,
                                    numbytes |-> bk.bytes])
             IN  IF t1.err # NoError THEN [bd |-> bd, pathi |-> pathi1, t |-> t1]
                 ELSE IF ~Under(bd1) THEN [bd |-> bd, pathi |-> pathi1, t |-> t1]
                 ELSE Grow(b, pathi1, basketi1 + 1, bfile1, bd1, t1)

\* One range per basket, no coalescing.
Coalesce_Never(bd, ranges) ==
    [i \in 1..Len(bd) |-> [path |-> bd[i].path, pathi |-> bd[i].pathi,
                            entrystart |-> bd[i].entrystart, entryend |-> bd[i].entryend]]

\* "create a possible partition": coalesce the baskets of one file.
RECURSIVE Coalesce(_, _)
Coalesce(bd, ranges) ==
    IF bd = <<>> THEN ranges
    ELSE LET d == Head(bd)
             n == Len(ranges)
         IN  IF n = 0 \/ ranges[n].pathi # d.pathi
               THEN Coalesce(Tail(bd), Append(ranges, [path |-> d.path, pathi |-> d.pathi,
                                                       entrystart |-> d.entrystart,
                                                       entryend |-> d.entryend]))
               ELSE Coalesce(Tail(bd), [ranges EXCEPT ![n].entryend = d.entryend])

\* The candidate's ranges left as the baskets gave them.
AlignFirst_None(ranges) == ranges

\* Align the first range to the previous partition's tail.
AlignFirst(ranges) ==
    IF partitions = <<>> THEN ranges
    ELSE LET lastp == partitions[Len(partitions)]
             lastr == lastp.ranges[Len(lastp.ranges)]
         IN  IF lastr.pathi = ranges[1].pathi
               THEN [ranges EXCEPT ![1].entrystart = lastr.entryend]
               ELSE [ranges EXCEPT ![1].entrystart = 0]

\* filter(lambda r: r.entrystart != r.entryend, ranges)
RECURSIVE DropEmpty(_)
DropEmpty(ranges) ==
    IF ranges = <<>> THEN <<>>
    ELSE IF Head(ranges).entrystart # Head(ranges).entryend
           THEN <<Head(ranges)>> \o DropEmpty(Tail(ranges))
           ELSE DropEmpty(Tail(ranges))

\* One pass of "for branchname, dtype in toget.items()" for branch k.
BranchCandidate(k, t) ==
    LET b == toget[k]
        first == partitions = <<>>
        lastp == partitions[Len(partitions)]
        lastr == lastp.ranges[Len(lastp.ranges)]
        pathi == IF first THEN 1 ELSE lastr.pathi
        entryi == IF first THEN 0 ELSE lastr.entryend
        t0 == Tree(t, pathi)
        basketi == IF first THEN 1 ELSE StartBasket(rootfiles[pathi].branches[b], entryi)
        g == Grow(b, pathi, basketi, pathi, <<>>, t0)
    IN  IF t0.err # NoError THEN [t |-> t0, err |-> t0.err, cand |-> <<>>]
        ELSE IF g.t.err # NoError THEN [t |-> g.t, err |-> g.t.err, cand |-> <<>>]
        ELSE IF Len(g.bd) = 0
          THEN [t |-> g.t,
                err |-> [kind |-> "ValueError", branch |-> b, entry |-> entryi, path |-> g.pathi,
                         other |-> 0],
                cand |-> <<>>]
        ELSE [t |-> g.t, err |-> NoError,
              cand |-> <<[kind |-> "Partition", index |-> partitioni,
                          ranges |-> DropEmpty(AlignFirst(Coalesce(g.bd, <<>>)))]>>]

RECURSIVE Candidates(_, _, _)
Candidates(k, t, acc) ==
    IF k > Len(toget) THEN [t |-> t, err |-> NoError, possiblenext |-> acc]
    ELSE LET c == BranchCandidate(k, t)
         IN  IF c.err # NoError THEN [t |-> c.t, err |-> c.err, possiblenext |-> acc]
             ELSE Candidates(k + 1, c.t, acc \o c.cand)

\* The while condition; evaluating its last disjunct opens the last file.
LoopCache ==
    LET t == [trees |-> trees, opens |-> opens, err |-> NoError]
    IN  IF partitions = <<>> THEN t
        ELSE LET lastp == partitions[Len(partitions)]
                 lastr == lastp.ranges[Len(lastp.ranges)]
             IN  IF lastr.path # npaths THEN t ELSE Tree(t, npaths)

LoopCondition ==
    IF partitions = <<>> THEN TRUE
    ELSE LET lastp == partitions[Len(partitions)]
             lastr == lastp.ranges[Len(lastp.ranges)]
         IN  IF lastr.path # npaths THEN TRUE
             ELSE lastr.entryend < rootfiles[npaths].numentries

\* A cache that is never pruned.
Evict_Nothing(tr, p) == tr

\* Files dropped from the cache after a partition was appended.
Evict(tr, p) == {i \in tr : ~(i < p.ranges[1].pathi)}

\* Files the path list can name, for the selected branches.
FileChoices(sel) ==
    LET names == {sel[k] : k \in 1..Len(sel)}
        bytes(b) == IF b = "x" THEN BasketBytes ELSE {1}
    IN  UNION { { [numentries |-> n, branches |-> br,
                   dtypes |-> [b \in names |-> "int32"], counters |-> <<>>] :
                  br \in {f \in [names -> Layouts(n, BasketBytes)] :
                             \A b \in names : \A i \in 1..Len(f[b]) : f[b][i].bytes \in bytes(b)} }
                : n \in 1..MaxEntries }

\* The planner's variables while another core runs.
FillIdle ==
    /\ npaths = 0 /\ rootfiles = <<>> /\ toget = <<>> /\ under = [maxcount |-> 0, maxbytes |-> 0]
    /\ trees = {} /\ opens = <<>> /\ partitions = <<>> /\ partitioni = 0
    /\ fpc = "idle" /\ ferror = NoError /\ fresult = NoResult

\* State on reaching the while loop of fill: the first file is open.
FillInit ==
    /\ \E n \in 1..MaxFiles, sel \in BranchSelections, u \in UnderChoices :
          /\ npaths = n
          /\ toget = sel
          /\ under = u
          /\ rootfiles \in [1..n -> FileChoices(sel)]
          /\ opens = [i \in 1..n |-> IF i = 1 THEN 1 ELSE 0]
    /\ trees = {1}
    /\ partitions = <<>>
    /\ partitioni = 0
    /\ fpc = "loop"
    /\ ferror = NoError
    /\ fresult = NoResult

\* State on reaching the while loop, for up to maxfiles files and a
\* selection out of selections.
FillInitOver(maxfiles, selections) ==
    /\ \E n \in 1..maxfiles, sel \in selections, u \in UnderChoices :
          /\ npaths = n
          /\ toget = sel
          /\ under = u
          /\ rootfiles \in [1..n -> FileChoices(sel)]
          /\ opens = [i \in 1..n |-> IF i = 1 THEN 1 ELSE 0]
    /\ trees = {1}
    /\ partitions = <<>>
    /\ partitioni = 0
    /\ fpc = "loop"
    /\ ferror = NoError
    /\ fresult = NoResult

\* Runs that select the single branch x.
FillSingleInit == FillInitOver(MaxFiles, {<<"x">>})

\* Runs over longer lists of files.
MaxChainFiles == 3

FillChainInit == FillInitOver(MaxChainFiles, {<<"x">>})

\* ------------------------------------------ files with differing schemas
MaxSchemaFiles == 2
MaxSchemaEntries == 1

\* dtypes a file can give branch x, and the branches that can count it.
SchemaDtypes == {"int32", "float64"}
CounterNames == {"n", "m"}

\* Files for a run that selects branch x: x is present with some dtype and
\* counted by some branch or by none, or x is absent.
SchemaFileChoices ==
    LET none == [b \in {} |-> ""]
        present(n) == { [numentries |-> n, branches |-> [b \in {"x"} |-> l],
                         dtypes |-> [b \in {"x"} |-> d], counters |-> c] :
                        l \in Layouts(n, {1}), d \in SchemaDtypes,
                        c \in {none} \cup {[b \in {"x"} |-> k] : k \in CounterNames} }
        absent(n) == { [numentries |-> n, branches |-> none, dtypes |-> none, counters |-> none] }
    IN  UNION { present(n) \cup absent(n) : n \in 1..MaxSchemaEntries }

\* State on reaching the while loop when the files' schemas may differ:
\* the selection was normalized against the first file, which has x.
FillSchemaInit ==
    /\ \E n \in 1..MaxSchemaFiles, u \in UnderChoices :
          /\ npaths = n
          /\ toget = <<"x">>
          /\ under = u
          /\ rootfiles \in {f \in [1..n -> SchemaFileChoices] : "x" \in DOMAIN f[1].dtypes}
          /\ opens = [i \in 1..n |-> IF i = 1 THEN 1 ELSE 0]
    /\ trees = {1}
    /\ partitions = <<>>
    /\ partitioni = 0
    /\ fpc = "loop"
    /\ ferror = NoError
    /\ fresult = NoResult

\* One iteration of the while loop.
FillStep ==
    /\ fpc = "loop"
    /\ LoopCondition
    /\ LET c == Candidates(1, LoopCache, <<>>)
           chosen == By(c.possiblenext)
       IN  /\ opens' = c.t.opens
           /\ IF c.err # NoError
                THEN /\ fpc' = "raised"
                     /\ ferror' = c.err
                     /\ trees' = c.t.trees
                     /\ UNCHANGED <<partitions, partitioni>>
              ELSE IF Len(chosen.ranges) = 0
                THEN \* partitions[-1].ranges[0] of a partition without ranges
                     /\ fpc' = "raised"
                     /\ ferror' = [NoError EXCEPT !.kind = "IndexError"]
                     /\ partitions' = Append(partitions, chosen)
                     /\ trees' = c.t.trees
                     /\ UNCHANGED partitioni
              ELSE /\ partitions' = Append(partitions, chosen)
                   /\ trees' = Evict(c.t.trees, chosen)
                   /\ partitioni' = partitioni + 1
                   /\ UNCHANGED <<fpc, ferror>>
    /\ UNCHANGED <<npaths, rootfiles, toget, under, fresult>>
    /\ UNCHANGED <<wvars, pvars, ivars>>

\* The loop condition fails: return PartitionSet(...).
FillReturn ==
    /\ fpc = "loop"
    /\ ~LoopCondition
    /\ LET t == LoopCache
           sel == {toget[k] : k \in 1..Len(toget)}
           r == PartitionSetNew("tree",
                                [kind |-> "dict",
                                 items |-> [k \in 1..Len(toget) |->
                                              <<toget[k], [np |-> rootfiles[1].dtypes[toget[k]]]>>]],
                                rootfiles[1].counters,
                                Len(partitions), SumPartitionEntries(partitions), partitions)
       IN  /\ trees' = t.trees
           /\ opens' = t.opens
           /\ IF t.err # NoError
                THEN fpc' = "raised" /\ ferror' = t.err /\ UNCHANGED fresult
              ELSE IF r.ok
                THEN fpc' = "returned" /\ fresult' = r /\ UNCHANGED ferror
              ELSE /\ fpc' = "raised"
                   /\ ferror' = [NoError EXCEPT !.kind = r.err]
                   /\ UNCHANGED fresult
    /\ UNCHANGED <<npaths, rootfiles, toget, under, partitions, partitioni>>
    /\ UNCHANGED <<wvars, pvars, ivars>>

FillNext == FillStep \/ FillReturn

(***************************************************************************)
(*                 PartitionSet construction and JSON                      *)
(***************************************************************************)
\* --------------------------------------------------------------- bounds
MaxRanges == 3
MaxRangeEntry == 2

\* ---------------------------------------------------------------- inputs
\* numpy dtypes, by canonical name; str(dtype) is that name.
Int32 == [np |-> "int32"]
Float64 == [np |-> "float64"]
DtypeStr(d) == d.np

\* numpy.dtype(s): the names and the one-character codes numpy understands.
DtypeNames == {"int32", "float64", "i", "d"}
NumpyDtype(s) == IF s \in {"int32", "i"} THEN Int32 ELSE Float64

\* Branch names are sequences of characters; a dict is its items in order.
DictChoices == { <<>>,
                 << <<<<"x">>, Int32>> >>,
                 << <<<<"x", "i">>, Int32>> >>,
                 << <<<<"p", "t">>, Float64>> >>,
                 << <<<<"x", "i">>, Int32>>, <<<<"y">>, Float64>> >> }

\* Ranges over two paths, entrystart < entryend.
RangeChoices == { r \in [path : {1, 2}, entrystart : 0..MaxRangeEntry, entryend : 0..MaxRangeEntry] :
                  r.entrystart < r.entryend }

\* Split a sequence of ranges into partitions after the positions in cuts.
RECURSIVE SplitAt(_, _, _, _)
SplitAt(rs, cuts, k, cur) ==
    IF k > Len(rs) THEN (IF cur = <<>> THEN <<>> ELSE <<cur>>)
    ELSE IF k \in cuts THEN <<Append(cur, rs[k])>> \o SplitAt(rs, cuts, k + 1, <<>>)
    ELSE SplitAt(rs, cuts, k + 1, Append(cur, rs[k]))

\* ------------------------------------------------------- toJson / fromJson
RangeToJson(r) == [json |-> "object", path |-> r.path,
                   entrystart |-> r.entrystart, entryend |-> r.entryend]

RangeFromJson(o) == [path |-> o.path, entrystart |-> o.entrystart, entryend |-> o.entryend]

PartitionToJson(p) == [json |-> "object", index |-> p.index,
                       ranges |-> [i \in 1..Len(p.ranges) |-> RangeToJson(p.ranges[i])]]

PartitionFromJson(o) == [kind |-> "Partition", index |-> o.index,
                         ranges |-> [i \in 1..Len(o.ranges) |-> RangeFromJson(o.ranges[i])]]

PartitionSetToJson(ps) ==
    [json |-> "object",
     treepath |-> ps.treepath,
     branchdtypes |-> [i \in 1..Len(ps.branchdtypes.items) |->
                          <<ps.branchdtypes.items[i][1], DtypeStr(ps.branchdtypes.items[i][2])>>],
     branchcounters |-> ps.branchcounters,
     numpartitions |-> ps.numpartitions,
     numentries |-> ps.numentries,
     partitions |-> [i \in 1..Len(ps.partitions) |-> PartitionToJson(ps.partitions[i])]]

\* "for b, d in obj[branchdtypes]": iterating the dict yields its keys, and
\* each key, a string, is unpacked into b and d.
UnpackError(key) ==
    IF Len(key) # 2 THEN "ValueError"
    ELSE IF key[2] \notin DtypeNames THEN "TypeError"
    ELSE ""

\* The positional arguments fromJson passes after numentries: one list.
FromJsonPartitions(o) ==
    << [kind |-> "list",
        items |-> [i \in 1..Len(o.partitions) |-> PartitionFromJson(o.partitions[i])]] >>

PartitionSetFromJson(o) ==
    LET keys == [i \in 1..Len(o.branchdtypes) |-> o.branchdtypes[i][1]]
        bad == {i \in 1..Len(keys) : UnpackError(keys[i]) # ""}
        firstbad == CHOOSE i \in bad : \A j \in bad : i <= j
        dtypes == [kind |-> "dict",
                   items |-> [i \in 1..Len(keys) |-> << <<keys[i][1]>>, NumpyDtype(keys[i][2]) >>]]
    IN  IF bad # {} THEN [ok |-> FALSE, err |-> UnpackError(keys[firstbad]), ps |-> <<>>]
        ELSE PartitionSetNew(o.treepath, dtypes, o.branchcounters,
                             o.numpartitions, o.numentries, FromJsonPartitions(o))

\* json.dumps / json.loads
JsonDumps(o) == [json |-> "string", text |-> o]
JsonLoads(str) == str.text

\* ------------------------------------------------------------ actions
PSIdle ==
    /\ psargs = <<>> /\ psobj = NoResult /\ psjson = <<>> /\ psback = NoResult /\ ppc = "idle"

\* Arguments a caller can hand to the constructor.
PSInit ==
    /\ \E n \in 1..MaxRanges :
         \E rs \in [1..n -> RangeChoices],
            cuts \in SUBSET (1..(n - 1)),
            flaw \in {"none", "index", "numpartitions", "numentries", "notdict"},
            d \in DictChoices :
            LET split == SplitAt(rs, cuts, 1, <<>>)
                base == IF flaw = "index" THEN 1 ELSE 0
                parts == [i \in 1..Len(split) |->
                             [kind |-> "Partition", index |-> i - 1 + base, ranges |-> split[i]]]
            IN  /\ flaw # "none" => d = <<>>
                /\ psargs = [treepath |-> "tree",
                             branchdtypes |-> [kind |-> IF flaw = "notdict" THEN "list" ELSE "dict",
                                               items |-> d],
                             branchcounters |-> <<>>,
                             numpartitions |-> Len(parts) + (IF flaw = "numpartitions" THEN 1 ELSE 0),
                             numentries |-> SumPartitionEntries(parts)
                                              + (IF flaw = "numentries" THEN 1 ELSE 0),
                             partitions |-> parts]
    /\ psobj = NoResult /\ psjson = <<>> /\ psback = NoResult
    /\ ppc = "args"

\* PartitionSet(treepath, branchdtypes, branchcounters, numpartitions, numentries, *partitions)
PSConstruct ==
    /\ ppc = "args"
    /\ psobj' = PartitionSetNew(psargs.treepath, psargs.branchdtypes, psargs.branchcounters,
                                psargs.numpartitions, psargs.numentries, psargs.partitions)
    /\ ppc' = IF psobj'.ok THEN "built" ELSE "rejected"
    /\ UNCHANGED <<psargs, psjson, psback>>
    /\ UNCHANGED <<wvars, fvars, ivars>>

PSToJson ==
    /\ ppc = "built"
    /\ psjson' = PartitionSetToJson(psobj.ps)
    /\ ppc' = "json"
    /\ UNCHANGED <<psargs, psobj, psback>>
    /\ UNCHANGED <<wvars, fvars, ivars>>

PSToJsonString ==
    /\ ppc = "built"
    /\ psjson' = JsonDumps(PartitionSetToJson(psobj.ps))
    /\ ppc' = "jsonstring"
    /\ UNCHANGED <<psargs, psobj, psback>>
    /\ UNCHANGED <<wvars, fvars, ivars>>

PSFromJson ==
    /\ ppc = "json"
    /\ psback' = PartitionSetFromJson(psjson)
    /\ ppc' = "back"
    /\ UNCHANGED <<psargs, psobj, psjson>>
    /\ UNCHANGED <<wvars, fvars, ivars>>

PSFromJsonString ==
    /\ ppc = "jsonstring"
    /\ psback' = PartitionSetFromJson(JsonLoads(psjson))
    /\ ppc' = "back"
    /\ UNCHANGED <<psargs, psobj, psjson>>
    /\ UNCHANGED <<wvars, fvars, ivars>>

PSNext == PSConstruct \/ PSToJson \/ PSToJsonString \/ PSFromJson \/ PSFromJsonString

(***************************************************************************)
(*                              iterator                                   *)
(***************************************************************************)
NoTreeData == [p \in {} |-> <<>>]

IterIdle ==
    /\ treedata = NoTreeData /\ oldpath = 0 /\ entries = <<>> /\ nextpartition = 0
    /\ forpos = [partition |-> 0, range |-> 0] /\ ipc = "idle" /\ yielded = <<>>

\* tree.iterator(entries, ..., reportentries=True) of the file at path: one
\* (entrystart, entryend, arrays) per requested range, in request order.
\* The arrays are named by the file and the entries they were read from.
TreeIterator(path, ents) ==
    [i \in 1..Len(ents) |->
        [entrystart |-> ents[i][1], entryend |-> ents[i][2],
         arrays |-> [path |-> path, entrystart |-> ents[i][1], entryend |-> ents[i][2]]]]

\* treedata[oldpath] = list(tree.iterator(entries, ...))
Flush(td, path, ents) ==
    [p \in DOMAIN td \cup {path} |-> IF p = path THEN TreeIterator(path, ents) ELSE td[p]]

\* complete(nextpartition), nextpartition counted from 0.
Complete(ps, td, k) ==
    \A j \in 1..Len(ps.partitions[k + 1].ranges) :
        LET filerange == ps.partitions[k + 1].ranges[j]
        IN  /\ filerange.path \in DOMAIN td
            /\ \E i \in 1..Len(td[filerange.path]) :
                  /\ td[filerange.path][i].entrystart = filerange.entrystart
                  /\ td[filerange.path][i].entryend = filerange.entryend

\* The range loop of output(nextpartition): the arrays collected, the
\* treedata left behind, and whether treedata[filerange.path] raised.
RECURSIVE OutputRanges(_, _, _)
OutputRanges(rs, td, arraylist) ==
    IF rs = <<>> THEN [raised |-> FALSE, treedata |-> td, arrays |-> arraylist]
    ELSE LET filerange == Head(rs)
         IN  IF filerange.path \notin DOMAIN td
               THEN [raised |-> TRUE, treedata |-> td, arrays |-> arraylist]
             ELSE LET l == td[filerange.path]
                      hits == {i \in 1..Len(l) : /\ l[i].entrystart = filerange.entrystart
                                                 /\ l[i].entryend = filerange.entryend}
                      used == IF hits = {} THEN Len(l)
                              ELSE CHOOSE i \in hits : \A h \in hits : i <= h
                      rest == SubSeq(l, used + 1, Len(l))
                      got == IF hits = {} THEN arraylist ELSE Append(arraylist, l[used].arrays)
                      left == IF rest = <<>>
                                THEN [p \in DOMAIN td \ {filerange.path} |-> td[p]]
                                ELSE [td EXCEPT ![filerange.path] = rest]
                  IN  OutputRanges(Tail(rs), left, got)

Output(ps, td, k) == OutputRanges(ps.partitions[k + 1].ranges, td, <<>>)

\* The generator from where it is until it next yields, returns or raises.
\* g holds its locals; g.pc is the statement it is at.
RECURSIVE RunIterator(_, _)
RunIterator(ps, g) ==
    IF g.pc = "for"
      THEN IF g.forpos.partition > Len(ps.partitions)
             THEN RunIterator(ps, [g EXCEPT !.pc = "flush"])
           ELSE IF g.forpos.range > Len(ps.partitions[g.forpos.partition].ranges)
             THEN RunIterator(ps, [g EXCEPT !.pc = "while"])
           ELSE LET filerange == ps.partitions[g.forpos.partition].ranges[g.forpos.range]
                    changed == g.oldpath # filerange.path
                    td == IF changed /\ g.oldpath # 0
                            THEN Flush(g.treedata, g.oldpath, g.entries) ELSE g.treedata
                    ents == IF changed THEN <<>> ELSE g.entries
                IN  RunIterator(ps, [g EXCEPT !.treedata = td,
                                              !.entries = Append(ents, <<filerange.entrystart,
                                                                         filerange.entryend>>),
                                              !.oldpath = filerange.path,
                                              !.forpos.range = @ + 1])
    ELSE IF g.pc \in {"while", "lastwhile"}
      THEN IF g.nextpartition < Len(ps.partitions) /\ Complete(ps, g.treedata, g.nextpartition)
             THEN LET o == Output(ps, g.treedata, g.nextpartition)
                  IN  IF o.raised THEN [g EXCEPT !.pc = "KeyError", !.treedata = o.treedata]
                      ELSE [g EXCEPT !.pc = IF g.pc = "while" THEN "yield" ELSE "lastyield",
                                     !.treedata = o.treedata,
                                     !.yielded = Append(@, [index |-> g.nextpartition,
                                                            arrays |-> o.arrays])]
           ELSE IF g.pc = "while"
             THEN RunIterator(ps, [g EXCEPT !.pc = "for",
                                            !.forpos = [partition |-> @.partition + 1, range |-> 1]])
           ELSE [g EXCEPT !.pc = "exhausted"]
    ELSE IF g.pc = "flush"
      THEN RunIterator(ps, [g EXCEPT !.pc = "lastwhile",
                                     !.treedata = IF g.oldpath # 0
                                                    THEN Flush(@, g.oldpath, g.entries) ELSE @])
    ELSE IF g.pc \in {"yield", "lastyield"}
      THEN RunIterator(ps, [g EXCEPT !.pc = IF g.pc = "yield" THEN "while" ELSE "lastwhile",
                                     !.nextpartition = @ + 1])
    ELSE g

Generator ==
    [treedata |-> treedata, oldpath |-> oldpath, entries |-> entries,
     nextpartition |-> nextpartition, forpos |-> forpos, pc |-> ipc, yielded |-> yielded]

\* iterator(partitionset): the generator is created; no statement runs yet.
IteratorCall ==
    /\ ppc = "built" /\ ipc = "idle"
    /\ ipc' = "for"
    /\ forpos' = [partition |-> 1, range |-> 1]
    /\ UNCHANGED <<treedata, oldpath, entries, nextpartition, yielded>>
    /\ UNCHANGED <<wvars, fvars, pvars>>

\* next(generator): run to the next yield, to the end, or to an exception.
IteratorNext ==
    /\ ipc \in {"for", "yield", "lastyield"}
    /\ LET g == RunIterator(psobj.ps, Generator)
       IN  /\ treedata' = g.treedata /\ oldpath' = g.oldpath /\ entries' = g.entries
           /\ nextpartition' = g.nextpartition /\ forpos' = g.forpos
           /\ ipc' = g.pc /\ yielded' = g.yielded
    /\ UNCHANGED <<wvars, fvars, pvars>>

IterNext == PSConstruct \/ IteratorCall \/ IteratorNext

(***************************************************************************)
(*                           Specifications                                *)
(***************************************************************************)
WriterIdle ==
    /\ file = {} /\ filesize = 0 /\ cursor = 0 /\ streamers = <<>>
    /\ fEND = 0 /\ fSeekFree = 0 /\ fSeekInfo = 0 /\ fSeekKeys = 0 /\ fNbytesKeys = 0
    /\ directory_pointcheck = 0 /\ streamerend = 0 /\ streamerlimit = 0
    /\ keystart = 0 /\ keyend = 0 /\ keylimit = 0
    /\ head_key_pointcheck = 0 /\ head_key_end = 0 /\ nkeys = 0
    /\ sizes = <<>> /\ inserted = <<>> /\ wpc = "idle"

InitWriter == WriterInit /\ FillIdle /\ PSIdle /\ IterIdle

InitFill == FillInit /\ WriterIdle /\ PSIdle /\ IterIdle

InitPartitionSet == PSInit /\ WriterIdle /\ FillIdle /\ IterIdle

SpecWriter == InitWriter /\ [][WriterNext]_vars

SpecWriterAny == InitWriter /\ [][WriterNextAny]_vars

SpecWriterRun == InitWriter /\ [][InsertFullKey]_vars

InitWriterLate == WriterLateInit /\ FillIdle /\ PSIdle /\ IterIdle

SpecWriterLate == InitWriterLate /\ [][WriterLateNext]_vars

SpecFill == InitFill /\ [][FillNext]_vars

InitFillSingle == FillSingleInit /\ WriterIdle /\ PSIdle /\ IterIdle

SpecFillSingle == InitFillSingle /\ [][FillNext]_vars

InitFillChain == FillChainInit /\ WriterIdle /\ PSIdle /\ IterIdle

SpecFillChain == InitFillChain /\ [][FillNext]_vars

InitFillSchema == FillSchemaInit /\ WriterIdle /\ PSIdle /\ IterIdle

SpecFillSchema == InitFillSchema /\ [][FillNext]_vars

SpecPartitionSet == InitPartitionSet /\ [][PSNext]_vars

SpecIterator == InitPartitionSet /\ [][IterNext]_vars

(***************************************************************************)
(*                             Properties                                  *)
(***************************************************************************)
\* ------------------------------------------------------- writer properties
NumInserts == Len(inserted)

KeyRelocations == {i \in 1..Len(inserted) : inserted[i].reloc}

\* C1: after every insert the big-endian int32 right after the head-key at
\* directory.fSeekKeys equals the number of insert calls made so far.
C1_CountAfterHeadKey ==
    Holds(file, fSeekKeys + sizes.headkey, "nkeys", <<NumInserts>>)

\* C2: every object record of at most 400 bytes is still intact at the
\* offset its StringKey references, whatever relocations happened.
SmallObjects == \A i \in 1..Len(inserted) : inserted[i].keylen + inserted[i].paylen <= 400

ObjectIntact(i) ==
    /\ Holds(file, inserted[i].at, "JunkKey", <<i>>)
    /\ Holds(file, inserted[i].at + inserted[i].keylen, "TObjString", <<i>>)

C2_ObjectsSurvive ==
    SmallObjects => \A i \in 1..Len(inserted) : inserted[i].tobj => ObjectIntact(i)

\* C7: header.fEND and header.fSeekFree never decrease across an insert.
C7_EndsNeverDecrease == [][fEND' >= fEND /\ fSeekFree' >= fSeekFree]_vars

C7_Witness ==
    /\ Cardinality(KeyRelocations) >= 2
    /\ \E i \in 1..Len(inserted) : ~inserted[i].tobj

\* C8: fEND >= fSeekFree, and fSeekFree is at or past the end of every
\* object record, every key of the key list and every streamer record.
RecordEnds ==
    {inserted[i].at + inserted[i].keylen + inserted[i].paylen : i \in {j \in 1..Len(inserted) : inserted[j].tobj}}
    \cup {inserted[i].keyat + inserted[i].keylen : i \in {j \in 1..Len(inserted) : inserted[j].tobj}}
    \cup {inserted[i].streamerat + sizes.tobjstreamer : i \in {j \in 1..Len(inserted) : inserted[j].wrotestreamer}}
    \cup {head_key_end + 4, fSeekInfo + sizes.streamerkey + sizes.allstreamers}

C8_FreeAboveRecords ==
    /\ fEND >= fSeekFree
    /\ \A e \in RecordEnds : fSeekFree >= e

\* Every state of the run of full-key inserts past its fourth insert is
\* the state WriterAfterRun gives for the inserts made.
RunArrivesAtWriterAfterRun ==
    Len(inserted) >= 4 => WriterState = WriterAfterRun(sizes, Len(inserted))

\* C13: after every insert directory.fNbytesKeys is the size of the key
\* list, the bytes from directory.fSeekKeys to the end of the last key.
C13_NbytesKeysIsKeyListSize ==
    NumInserts >= 1 =>
        /\ fNbytesKeys = keyend - fSeekKeys
        /\ Holds(file, directory_pointcheck, "DirectoryInfo", <<keyend - fSeekKeys, fSeekKeys>>)

TObjStringInserts == {i \in 1..Len(inserted) : inserted[i].tobj}

\* Length of the live key list, fSeekKeys to keyend, when insert i made
\* its relocation check: the object of insert i sits at the old fEND, which
\* becomes the new fSeekKeys, and its key is appended at the moved keyend.
LiveAtRelocation(i) == inserted[i].keyat - inserted[i].at

KeysInList == {r \in file : r.kind = "StringKey" /\ r.at >= fSeekKeys /\ r.at + r.len <= keyend}

\* C17: with StringKeys of at most 200 bytes, at every key-list relocation
\* the live key list is at most expander bytes long, so the copy carries
\* every StringKey appended so far to the new fSeekKeys.
C17_LiveListFitsCopy ==
    (\A i \in 1..Len(inserted) : inserted[i].keylen <= KeyRoom) =>
        /\ \A i \in KeyRelocations : LiveAtRelocation(i) <= expander
        /\ (Len(inserted) >= 1 /\ inserted[Len(inserted)].reloc) =>
               \A j \in TObjStringInserts : \E r \in KeysInList : r.val[1] = j

StreamerWrites == {i \in 1..Len(inserted) : inserted[i].wrotestreamer}

\* C15: the TObjString streamer descriptor is written exactly once, by the
\* first insert of a TObjString; every insert after it leaves the streamer
\* registry, streamerend, streamerlimit and header.fSeekInfo unchanged.
C15_StreamerWrittenOnce ==
    /\ [](/\ StreamerWrites = {i \in TObjStringInserts : \A j \in TObjStringInserts : i <= j}
           /\ Cardinality({r \in file : r.kind = "TObjStringStreamers"}) <= 1
           /\ Len(streamers) = Cardinality(StreamerWrites))
    /\ [][TObjStringInserts # {} =>
              UNCHANGED <<streamers, streamerend, streamerlimit, fSeekInfo>>]_vars

C15_Witness ==
    /\ Cardinality(TObjStringInserts) >= 3
    /\ KeyRelocations # {}
    /\ ~inserted[1].tobj
    /\ Cardinality(StreamerWrites) = 1

\* C22: whenever the key list lies after the streamer key, the streamer
\* region ends at or before the start of the key list: streamerlimit is
\* never greater than fSeekKeys.
C22_StreamerRegionBelowKeyList ==
    (wpc = "ready" /\ fSeekKeys > fSeekInfo) => streamerlimit <= fSeekKeys

\* C23: nkeys equals the number of StringKeys appended to the key list,
\* one per insert of a TObjString; inserts of other values do not count.
C23_NkeysCountsStringKeys ==
    wpc = "ready" => nkeys = Cardinality(TObjStringInserts)

\* ------------------------------------------------------ planner properties
\* The ranges of the returned partitions that name file i, in order.
RECURSIVE RangesOf(_, _)
RangesOf(rs, i) ==
    IF rs = <<>> THEN <<>>
    ELSE IF Head(rs).path = i THEN <<Head(rs)>> \o RangesOf(Tail(rs), i)
    ELSE RangesOf(Tail(rs), i)

RECURSIVE TilesFrom(_, _, _)
TilesFrom(rs, from, n) ==
    IF rs = <<>> THEN from = n
    ELSE /\ Head(rs).entrystart = from
         /\ Head(rs).entrystart <= Head(rs).entryend
         /\ TilesFrom(Tail(rs), Head(rs).entryend, n)

\* C3: the ranges of a returned PartitionSet, grouped by path, tile
\* [0, numentries) of every file: no gap, no overlap, nothing past the end.
C3_RangesTileFiles ==
    fpc = "returned" =>
        \A i \in 1..npaths :
            TilesFrom(RangesOf(AllRanges(fresult.ps.partitions), i), 0, rootfiles[i].numentries)

\* C4: N >= 2 files of one branch with one basket each, under accepting
\* one basket and rejecting two: fill returns N partitions, partition k
\* being the single range [0, numentries) of file k.
OneBasketPerFile ==
    /\ npaths >= 2
    /\ Len(toget) = 1
    /\ \A i \in 1..npaths : Len(rootfiles[i].branches[toget[1]]) = 1
    /\ under = [maxcount |-> 1, maxbytes |-> Unlimited]

C4_OnePartitionPerFile ==
    (OneBasketPerFile /\ fpc # "loop") =>
        /\ fpc = "returned"
        /\ Len(fresult.ps.partitions) = npaths
        /\ \A k \in 1..npaths :
              LET rs == fresult.ps.partitions[k].ranges
              IN  /\ Len(rs) = 1
                  /\ rs[1].path = k /\ rs[1].entrystart = 0
                  /\ rs[1].entryend = rootfiles[k].numentries

\* The baskets of branch b, as the files really hold them, that overlap
\* the ranges rs.
RECURSIVE ActualBaskets(_, _)
ActualBaskets(b, rs) ==
    IF rs = <<>> THEN <<>>
    ELSE LET r == Head(rs)
             br == rootfiles[r.path].branches[b]
             hit(k) == k.start < r.entryend /\ k.start + k.entries > r.entrystart
             hits == SelectSeq(br, hit)
         IN  [i \in 1..Len(hits) |-> [numbytes |-> hits[i].bytes, path |-> r.path]]
             \o ActualBaskets(b, Tail(rs))

\* C6: in a returned PartitionSet, for every selected branch and every
\* partition, the branch's baskets that overlap the partition satisfy under.
C6_PartitionsUnderConstraint ==
    fpc = "returned" =>
        \A k \in 1..Len(toget) : \A i \in 1..Len(fresult.ps.partitions) :
            Under(ActualBaskets(toget[k], fresult.ps.partitions[i].ranges))

\* The first basket of branch b that the partitions made so far do not
\* cover yet, as a one-element list of baskets (empty when all is covered).
FirstUncovered(b) ==
    LET first == partitions = <<>>
        lastp == partitions[Len(partitions)]
        lastr == lastp.ranges[Len(lastp.ranges)]
        pathi == IF first THEN 1 ELSE lastr.path
        entryi == IF first THEN 0 ELSE lastr.entryend
        at(i, e) == LET br == rootfiles[i].branches[b]
                        k == CHOOSE j \in 1..Len(br) : br[j].start <= e /\ e < br[j].start + br[j].entries
                    IN  <<[numbytes |-> br[k].bytes, path |-> i]>>
    IN  IF entryi < rootfiles[pathi].numentries THEN at(pathi, entryi)
        ELSE IF entryi = rootfiles[pathi].numentries /\ pathi < npaths THEN at(pathi + 1, 0)
        ELSE <<>>

SomeFirstBasketTooBig ==
    \E k \in 1..Len(toget) :
        LET fb == FirstUncovered(toget[k]) IN fb # <<>> /\ ~Under(fb)

\* C10: when the first uncovered basket of some branch violates under on
\* its own, fill fails with the Unsatisfiable ValueError and nothing else.
C10_UnsatisfiableRaised ==
    [][(fpc = "loop" /\ SomeFirstBasketTooBig)
          => (fpc' = "raised" /\ ferror'.kind = "ValueError" /\ ferror'.other = 0)]_vars

LastRange(p) == p.ranges[Len(p.ranges)]

\* Partition i of ps is numbered i (from 0) and starts where partition
\* i - 1 stopped: in the same file at its entryend, or at entry 0 of the
\* next file.
Chained(ps) ==
    \A i \in 1..Len(ps) :
        /\ ps[i].index = i - 1
        /\ Len(ps[i].ranges) >= 1
        /\ i > 1 =>
              LET prev == LastRange(ps[i - 1])
                  first == ps[i].ranges[1]
              IN  \/ first.path = prev.path + 1 /\ first.entrystart = 0
                  \/ first.path = prev.path /\ first.entrystart = prev.entryend

\* C14: in every PartitionSet fill returns, and in every list of partitions
\* its loop has built, partitions[i].index = i and each partition starts at
\* the previous one's entryend in the same file or at entry 0 of the file
\* right after it.
C14_PartitionsChained ==
    /\ fpc = "loop" => Chained(partitions)
    /\ fpc = "returned" => Chained(fresult.ps.partitions)

C14_Witness ==
    /\ fpc = "returned"
    /\ Len(fresult.ps.partitions) >= 3
    /\ \E i \in 2..Len(fresult.ps.partitions) :
          fresult.ps.partitions[i].ranges[1].entrystart > 0
    /\ \E i \in 2..Len(fresult.ps.partitions) :
          fresult.ps.partitions[i].ranges[1].path > LastRange(fresult.ps.partitions[i - 1]).path

AlwaysUnder == under = [maxcount |-> Unlimited, maxbytes |-> Unlimited]

WholeFile(ps) ==
    /\ Len(ps) = 1
    /\ Len(ps[1].ranges) = 1
    /\ ps[1].ranges[1].path = 1
    /\ ps[1].ranges[1].entrystart = 0
    /\ ps[1].ranges[1].entryend = rootfiles[1].numentries

\* C16: one file, one selected branch in any number of baskets, under
\* always true: fill returns one partition holding the one range
\* [0, numentries) of the file.
C16_SingleFileOnePartition ==
    (npaths = 1 /\ Len(toget) = 1 /\ AlwaysUnder) =>
        /\ fpc # "raised"
        /\ partitions # <<>> => WholeFile(partitions)
        /\ fpc = "returned" => WholeFile(fresult.ps.partitions)

C16_Witness ==
    /\ npaths = 1 /\ Len(toget) = 1 /\ AlwaysUnder
    /\ Len(rootfiles[1].branches[toget[1]]) >= 2
    /\ fpc = "returned"

\* The last range of partitions new lies strictly after the last range of
\* partitions old: a later file, or a later entry of the same file.
EndsAfter(old, new) ==
    \/ old = <<>>
    \/ LET a == LastRange(old[Len(old)])
           b == LastRange(new[Len(new)])
       IN  b.path > a.path \/ (b.path = a.path /\ b.entryend > a.entryend)

\* C18: every iteration of the partitioning loop raises an error or appends
\* a partition whose last range ends strictly after the previous
\* partition's end, and the loop is left once the last range reaches the
\* last file's numentries.
C18_LoopAdvances ==
    [][fpc = "loop" =>
         \/ fpc' = "raised"
         \/ fpc' = "returned" /\ LastRange(partitions[Len(partitions)]).path = npaths
         \/ /\ fpc' = "loop"
            /\ Len(partitions') = Len(partitions) + 1
            /\ EndsAfter(partitions, partitions')]_vars

\* C19: at the end of every iteration the cache holds no file before the
\* file of the first range of the partition just appended and still holds
\* the file of its last range; no file is opened more than once in a run.
C19_CachePruned ==
    /\ (fpc = "loop" /\ partitions # <<>>) =>
           LET p == partitions[Len(partitions)]
           IN  /\ \A i \in trees : i >= p.ranges[1].pathi
               /\ LastRange(p).pathi \in trees
    /\ \A i \in 1..npaths : opens[i] <= 1

C19_Witness ==
    /\ fpc = "loop"
    /\ Len(partitions) >= 2
    /\ 1 \notin trees
    /\ opens[1] = 1

\* Files opened by the step being taken.
OpenedNow(i) == opens'[i] > opens[i]

SchemaRaised == fpc' = "raised" /\ ferror'.kind = "ValueError" /\ ferror'.other # 0

\* The counter status of the branches differs between file i and the
\* first file: a counter on one side only, or two different counters.
CounterStatusDiffers(i) == rootfiles[i].counters # rootfiles[1].counters

\* C11: whenever fill opens a file i > 0 whose branches do not all have the
\* counter status they have in file 0 (a counter missing, a counter added,
\* or another counter branch), it raises a schema error.
C11_CounterMismatchRaises ==
    [][\A i \in 2..npaths : (OpenedNow(i) /\ CounterStatusDiffers(i)) => SchemaRaised]_vars

\* File i gives every selected branch the dtype it has in file 0.
BranchesMatch(i) ==
    \A k \in 1..Len(toget) :
        /\ toget[k] \in DOMAIN rootfiles[i].dtypes
        /\ rootfiles[i].dtypes[toget[k]] = rootfiles[1].dtypes[toget[k]]

RangesValidated(ps) ==
    \A j \in 1..Len(ps) : \A r \in 1..Len(ps[j].ranges) : BranchesMatch(ps[j].ranges[r].path)

\* C20: no partition built or returned by fill holds a range in a file
\* where a selected branch is absent or has another dtype than in file 0;
\* opening such a file raises an error that names a mismatching branch,
\* that file and another file.
C20_SchemaValidatedBeforeUse ==
    /\ [](RangesValidated(partitions)
            /\ (fpc = "returned" => RangesValidated(fresult.ps.partitions)))
    /\ [][\A i \in 2..npaths : (OpenedNow(i) /\ ~BranchesMatch(i)) =>
              /\ SchemaRaised
              /\ ferror'.path = i
              /\ ferror'.other \in (1..npaths) \ {i}
              /\ ferror'.branch \in {toget[k] : k \in 1..Len(toget)}
              /\ ~(/\ ferror'.branch \in DOMAIN rootfiles[i].dtypes
                    /\ rootfiles[i].dtypes[ferror'.branch] = rootfiles[1].dtypes[ferror'.branch])]_vars

\* A file with a missing or retyped branch was opened while a candidate
\* was growing out of the first file, and the schema check stopped the run.
C20_Witness ==
    /\ fpc = "raised"
    /\ ferror.other # 0
    /\ ferror.path >= 2
    /\ ~BranchesMatch(ferror.path)
    /\ opens[ferror.path] = 1

\* C21: every partition fill has appended has at least one range, and
\* every range of it has entrystart < entryend.
C21_RangesNonEmpty ==
    \A i \in 1..Len(partitions) :
        /\ Len(partitions[i].ranges) >= 1
        /\ \A j \in 1..Len(partitions[i].ranges) :
              partitions[i].ranges[j].entrystart < partitions[i].ranges[j].entryend

\* --------------------------------------------------- PartitionSet properties
\* C9: the constructor accepts a list of partitions only if, for every
\* path, the ranges naming that path neither overlap nor leave a gap.
RECURSIVE Contiguous(_)
Contiguous(rs) ==
    IF Len(rs) <= 1 THEN TRUE
    ELSE rs[2].entrystart = rs[1].entryend /\ Contiguous(Tail(rs))

C9_AcceptsOnlyContiguousPaths ==
    (ppc # "args" /\ psobj.ok) =>
        \A pa \in {1, 2} : Contiguous(RangesOf(AllRanges(psargs.partitions), pa))

\* C5: reading the JSON form (or the JSON string) of a PartitionSet back
\* succeeds and yields a structurally equal PartitionSet.
C5_JsonRoundTrip ==
    ppc = "back" => (psback.ok /\ psback.ps = psobj.ps)

\* ------------------------------------------------------- iterator properties
\* The arrays a record built from partition p holds: one per range, in order.
ArraysOf(p) ==
    [j \in 1..Len(p.ranges) |-> [path |-> p.ranges[j].path,
                                 entrystart |-> p.ranges[j].entrystart,
                                 entryend |-> p.ranges[j].entryend]]

\* The paths of a PartitionSet come in runs: a path that was left does not
\* come back.
PathsInRuns(ps) ==
    LET rs == AllRanges(ps.partitions)
    IN  \A i, j, k \in 1..Len(rs) : (i < j /\ j < k /\ rs[i].path = rs[k].path)
                                        => rs[j].path = rs[i].path

\* C12: for a PartitionSet the constructor accepted, the iterator does not
\* raise, the k-th record it yields is built from the ranges of partition k
\* (so partitions are yielded once each, in increasing index order), and
\* when it is exhausted it has yielded numpartitions records.
C12_IteratorYieldsEveryPartition ==
    /\ ipc # "KeyError"
    /\ \A k \in 1..Len(yielded) :
          /\ yielded[k].index = k - 1
          /\ yielded[k].arrays = ArraysOf(psobj.ps.partitions[k])
    /\ ipc = "exhausted" => Len(yielded) = psobj.ps.numpartitions

\* The same, for PartitionSets whose paths come in runs.
IteratorYieldsEveryPartitionInRuns ==
    (ppc = "built" /\ PathsInRuns(psobj.ps)) => C12_IteratorYieldsEveryPartition

====
